---- MODULE Spec2Model ----
(***************************************************************************)
(* Model of package maintest (masp/execover): Build -> Command* -> Finish   *)
(* of an instrumented executable, with the filesystem, os.Args and the      *)
(* environment it reads.                                                    *)
(*                                                                          *)
(* A Go string is a sequence of pieces: one-character pieces where the code *)
(* inspects the text (os.Args tokens, flag keys), larger pieces elsewhere;  *)
(* Go's string concatenation is \o.                                         *)
(***************************************************************************)
EXTENDS Integers, Sequences, FiniteSets, TLC

\* ------------------------------------------------------------------ bounds
\* number of flag tokens after os.Args[0], in the lifecycle specification
MaxArgs == 1
\* number of flag tokens after os.Args[0], in the argument scan
MaxScanArgs == 2
\* number of Build calls
MaxBuilds == 1
\* number of Command calls
MaxRuns == 2

\* ------------------------------------------------------------ VARIABLES
VARIABLES
    args,       \* os.Args of the test process
    environ,    \* os.Environ() of the test process: entries "KEY=value"
    tmpfs,      \* temporary-directory namespace: binDir path -> contents
    files,      \* regular files outside the temp namespace: path -> report
    dirs,       \* directories outside the temp namespace: path -> entries
    exes,       \* the Handles (*Exe) that Build has returned
    nBuilds,    \* number of Build calls so far (number of MkdirTemp names used)
    cmds,       \* the *exec.Cmd values Command has returned, and whether run
    fin,        \* what the most recent Finish call did and returned
    found       \* result of the most recent direct findArg call

vars == <<args, environ, tmpfs, files, dirs, exes, nBuilds, cmds, fin, found>>

\* ---------------------------------------------------------------- strings
Empty == <<>>

\* strings.HasPrefix
HasPrefix(s, prefix) ==
    /\ Len(s) >= Len(prefix)
    /\ SubSeq(s, 1, Len(prefix)) = prefix

\* strings.Split(s, sep) for a one-character separator
RECURSIVE Split(_, _)
Split(s, sep) ==
    IF \E i \in 1..Len(s) : s[i] = sep
    THEN LET i == CHOOSE k \in 1..Len(s) :
                     s[k] = sep /\ \A j \in 1..(k - 1) : s[j] # sep
         IN  <<SubSeq(s, 1, i - 1)>> \o Split(SubSeq(s, i + 1, Len(s)), sep)
    ELSE <<s>>

\* strings.Join(elems, sep)
RECURSIVE Join(_, _)
Join(elems, sep) ==
    IF Len(elems) = 0 THEN Empty
    ELSE IF Len(elems) = 1 THEN elems[1]
    ELSE elems[1] \o <<sep>> \o Join(Tail(elems), sep)

\* the flag keys Finish looks for
KeyCoverProfile ==
    <<"t","e","s","t",".","c","o","v","e","r","p","r","o","f","i","l","e">>
KeyGoCoverDir ==
    <<"t","e","s","t",".","g","o","c","o","v","e","r","d","i","r">>

\* the body of findArg's loop from the argument osArgs on
RECURSIVE findArgIn(_, _)
findArgIn(osArgs, key) ==
    IF osArgs = <<>> THEN Empty
    ELSE IF HasPrefix(Head(osArgs), <<"-">> \o key)
         THEN LET vs == Split(Head(osArgs), "=")
              IN  IF Len(vs) <= 1 THEN Empty ELSE Join(Tail(vs), "=")
         ELSE findArgIn(Tail(osArgs), key)

findArg(key) == findArgIn(args, key)

\* os.Getenv on the process environment env (entries "KEY=value"): the
\* first entry for the key, "" when there is none
RECURSIVE Getenv(_, _)
Getenv(env, key) ==
    IF env = <<>> THEN Empty
    ELSE IF HasPrefix(Head(env), <<key, "=">>)
         THEN SubSeq(Head(env), 3, Len(Head(env)))
         ELSE Getenv(Tail(env), key)

findGoCoverDir_envFirst ==
    LET d == Getenv(environ, "GOCOVERDIR")
    IN  IF d = Empty THEN findArg(KeyGoCoverDir) ELSE d

findGoCoverDir ==
    LET d == findArg(KeyGoCoverDir)
    IN  IF d = Empty THEN Getenv(environ, "GOCOVERDIR") ELSE d

\* ------------------------------------------------------------------ inputs
\* os.Args[0], the test binary
ProgName == <<"x">>

Flag(key, val) == <<"-">> \o key \o <<"=">> \o val

\* flag tokens of the lifecycle specification
Tokens ==
    { Flag(KeyCoverProfile, <<"a">>),
      Flag(KeyGoCoverDir, <<"b">>),
      Flag(KeyGoCoverDir, Empty) }

\* flag-style tokens of the argument-scanning specification
ScanTokens ==
    UNION { { Flag(k, <<"a">>),
              Flag(k, <<"a", "=", "b">>),
              Flag(k, Empty),
              <<"-">> \o k,
              Flag(k \o <<"x">>, <<"c">>),
              <<"-">> \o k \o <<"x">> } : k \in {KeyCoverProfile, KeyGoCoverDir} }
    \cup { <<"-", "v">>, <<"b">> }

RECURSIVE SeqsUpTo(_, _)
SeqsUpTo(S, n) ==
    IF n = 0 THEN { <<>> }
    ELSE LET shorter == SeqsUpTo(S, n - 1)
         IN  shorter \cup { Append(s, t) : s \in shorter, t \in S }

ArgLists(S, n) == { <<ProgName>> \o fl : fl \in SeqsUpTo(S, n) }

\* an environment entry "key=val"
EnvEntry(key, val) == <<key, "=">> \o val
Environs ==
    { <<EnvEntry("PATH", <<"p">>)>>,
      <<EnvEntry("GOCOVERDIR", <<"e">>), EnvEntry("PATH", <<"p">>)>> }

ExeNames == { <<"add">>, <<"maintest">> }

\* options: Debug(dlvArgs...), WriteCoverage(path), Package(pkg), and the
\* no-op that DebugFlag yields when its flag was not given
Opt(kind, strs) == [kind |-> kind, strs |-> strs]
\* the dlvArgs DebugFlag passes to Debug for the port s
DebugFlagArgs(s) == << <<"--headless">>, <<"-l">>, <<"localhost:">> \o s >>
Port == <<"25514">>
OptionLists ==
    { <<Opt("Noop", <<>>)>>,
      <<Opt("Debug", DebugFlagArgs(Port))>>,
      <<Opt("Package", << <<"pkg">> >>), Opt("WriteCoverage", << <<"o">> >>)>> }

CmdArgLists == { << <<"1">>, <<"3">> >>, << <<"--">>, <<"1">> >> }

\* ------------------------------------------------------------- filesystem
Nil == "nil"

Artifact(n) == [name |-> n, isDir |-> FALSE]
SubDir == [name |-> 0, isDir |-> TRUE]

\* os.MkdirTemp("", "gotestexe"): a name never used before
TempName(n) == <<"/tmp/gotestexe", ToString(n)>>

\* filepath.Join(dir, name)
JoinPath(dir, name) == dir \o <<"/">> \o name

NewRoot == [exe |-> FALSE, cov |-> FALSE, entries |-> {}]

\* a namespace with nothing in it
NoPaths == [p \in {} |-> {}]

\* os.RemoveAll(path) on the temp namespace
RemoveAll(fs, path) == [p \in DOMAIN fs \ {path} |-> fs[p]]

\* os.ReadDir: the entries sorted by file name
RECURSIVE SortedEntries(_)
SortedEntries(S) ==
    IF S = {} THEN <<>>
    ELSE LET m == CHOOSE e \in S : \A f \in S : e.name <= f.name
         IN  <<m>> \o SortedEntries(S \ {m})

\* the roots whose coverage directory is dir (none, or one)
RootsOf(fs, dir) ==
    { r \in DOMAIN fs : fs[r].cov /\ JoinPath(r, <<".coverage">>) = dir }

\* os.ReadDir(dir) on a private coverage directory
ReadDir(fs, dir) ==
    IF RootsOf(fs, dir) = {} THEN [ok |-> FALSE, entries |-> <<>>]
    ELSE LET r == CHOOSE r \in RootsOf(fs, dir) : TRUE
         IN  [ok |-> TRUE, entries |-> SortedEntries(fs[r].entries)]

\* the world Finish acts on
World(t, f, d) == [tmpfs |-> t, files |-> f, dirs |-> d]

\* runtime.GOOS
GOOS == "linux"

\* ------------------------------------------------------------------- Build
ZeroExe ==
    [Path |-> Empty, CoverageDir |-> Empty, binDir |-> Empty, buildPkg |-> Empty,
     extraArgs |-> <<>>, overrideCovDir |-> Empty, delveOpts |-> <<>>]

\* the closures returned by Debug, WriteCoverage, Package, and DebugFlag's no-op
ApplyOption(e, o) ==
    CASE o.kind = "Debug" ->
            [e EXCEPT !.extraArgs = Append(@, <<"-gcflags=all=-N -l">>),
                      !.delveOpts = @ \o o.strs]
      [] o.kind = "WriteCoverage" -> [e EXCEPT !.overrideCovDir = o.strs[1]]
      [] o.kind = "Package" -> [e EXCEPT !.buildPkg = o.strs[1]]
      [] OTHER -> e

RECURSIVE ApplyOptions(_, _)
ApplyOptions(e, opts) ==
    IF opts = <<>> THEN e ELSE ApplyOptions(ApplyOption(e, Head(opts)), Tail(opts))

\* goTool: exec.LookPath("go")
goTool(toolFound) ==
    IF toolFound THEN [path |-> <<"go">>, err |-> Nil]
    ELSE [path |-> Empty, err |-> "cannot find go tool"]

\* Build(exeName, opts...) on temp namespace fs, as the n-th MkdirTemp call, with
\* the outcomes of LookPath, MkdirTemp, MkdirAll and the build subprocess
BuildResult(exeName, opts, fs, n, toolFound, mkTempOk, mkAllOk, buildExit) ==
    IF goTool(toolFound).err # Nil
    THEN [err |-> goTool(toolFound).err, fs |-> fs, exe |-> ZeroExe]
    ELSE
    LET e0 == ApplyOptions(ZeroExe, opts)
        binDir == TempName(n)
    IN  IF ~mkTempOk THEN [err |-> "mkdirtemp", fs |-> fs, exe |-> ZeroExe]
        ELSE
        LET fs1 == (binDir :> NewRoot) @@ fs
            covDir == JoinPath(binDir, <<".coverage">>)
        IN  IF ~mkAllOk THEN [err |-> "mkdirall", fs |-> fs1, exe |-> ZeroExe]
            ELSE
            LET fs2 == [fs1 EXCEPT ![binDir].cov = TRUE]
                name == IF GOOS = "window" THEN exeName \o <<".exe">> ELSE exeName
                e == [e0 EXCEPT !.binDir = binDir, !.CoverageDir = covDir,
                                !.Path = JoinPath(binDir, name)]
            IN  IF buildExit # 0
                THEN [err |-> "go build", fs |-> fs2, exe |-> ZeroExe]
                ELSE [err |-> Nil, fs |-> [fs2 EXCEPT ![binDir].exe = TRUE], exe |-> e]

\* the outcomes a Build call draws from its environment; Build returns at its
\* first failure, so one failure a call is drawn
BuildOutcome(toolFound, mkTempOk, mkAllOk, buildExit) ==
    [toolFound |-> toolFound, mkTempOk |-> mkTempOk, mkAllOk |-> mkAllOk,
     buildExit |-> buildExit]
BuildOutcomes ==
    { BuildOutcome(TRUE, TRUE, TRUE, 0), BuildOutcome(FALSE, TRUE, TRUE, 0),
      BuildOutcome(TRUE, FALSE, TRUE, 0), BuildOutcome(TRUE, TRUE, FALSE, 0),
      BuildOutcome(TRUE, TRUE, TRUE, 1) }

\* TestMain calls Build, again after a failure, until it has its Handle
Build(exeName, opts, toolFound, mkTempOk, mkAllOk, buildExit) ==
    /\ nBuilds < MaxBuilds
    /\ exes = <<>>
    /\ \E r \in {BuildResult(exeName, opts, tmpfs, nBuilds + 1,
                            toolFound, mkTempOk, mkAllOk, buildExit)} :
           /\ tmpfs' = r.fs
           /\ exes' = IF r.err = Nil THEN Append(exes, r.exe) ELSE exes
    /\ nBuilds' = nBuilds + 1
    /\ UNCHANGED <<args, environ, files, dirs, cmds, fin, found>>

\* ----------------------------------------------------------------- Command
\* exec.Command(name, arg...)
ExecCommand(name, arg) == [Path |-> name, Args |-> <<name>> \o arg, Env |-> <<>>]

Command_envFirst(b, cmdArgs) ==
    LET dlvArgs == << <<"exec">>, <<"--log-dest">>, <<"/dev/null">> >>
                       \o b.delveOpts \o <<b.Path, <<"--">>>> \o cmdArgs
        dlvExe == IF GOOS = "windows" THEN <<"dlv", ".exe">> ELSE <<"dlv">>
        cmd == IF Len(b.delveOpts) > 0 THEN ExecCommand(dlvExe, dlvArgs)
               ELSE ExecCommand(b.Path, cmdArgs)
    IN  [cmd EXCEPT !.Env = <<EnvEntry("GOCOVERDIR", b.CoverageDir)>> \o environ]

Command_noSeparator(b, cmdArgs) ==
    LET dlvArgs == << <<"exec">>, <<"--log-dest">>, <<"/dev/null">> >>
                       \o b.delveOpts \o <<b.Path>> \o cmdArgs
        dlvExe == IF GOOS = "windows" THEN <<"dlv", ".exe">> ELSE <<"dlv">>
        cmd == IF Len(b.delveOpts) > 0 THEN ExecCommand(dlvExe, dlvArgs)
               ELSE ExecCommand(b.Path, cmdArgs)
    IN  [cmd EXCEPT !.Env = Append(environ, EnvEntry("GOCOVERDIR", b.CoverageDir))]

\* (b *Exe) Command(args...)
Command(b, cmdArgs) ==
    LET dlvArgs == << <<"exec">>, <<"--log-dest">>, <<"/dev/null">> >>
                       \o b.delveOpts \o <<b.Path, <<"--">>>> \o cmdArgs
        dlvExe == IF GOOS = "windows" THEN <<"dlv", ".exe">> ELSE <<"dlv">>
        cmd == IF Len(b.delveOpts) > 0 THEN ExecCommand(dlvExe, dlvArgs)
               ELSE ExecCommand(b.Path, cmdArgs)
    IN  [cmd EXCEPT !.Env = Append(environ, EnvEntry("GOCOVERDIR", b.CoverageDir))]

\* a caller calls Command on the i-th Handle, before its Finish
CallCommand(i, cmdArgs) ==
    /\ i \in 1..Len(exes)
    /\ exes[i].binDir \in DOMAIN tmpfs
    /\ Len(cmds) < MaxRuns
    /\ cmds' = Append(cmds, [cmd |-> Command(exes[i], cmdArgs), exe |-> i,
                             args |-> cmdArgs, ran |-> FALSE])
    /\ UNCHANGED <<args, environ, tmpfs, files, dirs, exes, nBuilds, fin, found>>

\* os/exec: of duplicate keys in Cmd.Env the last value is the one used
RECURSIVE ChildGetenv(_, _)
ChildGetenv(env, key) ==
    IF env = <<>> THEN Empty
    ELSE IF HasPrefix(env[Len(env)], <<key, "=">>)
         THEN SubSeq(env[Len(env)], 3, Len(env[Len(env)]))
         ELSE ChildGetenv(SubSeq(env, 1, Len(env) - 1), key)

\* index of the first "--" of an argument list, 0 when there is none
FirstSeparator(a) ==
    IF \E i \in 1..Len(a) : a[i] = <<"--">>
    THEN CHOOSE i \in 1..Len(a) : a[i] = <<"--">> /\ \A j \in 1..(i - 1) : a[j] # <<"--">>
    ELSE 0

\* the command line the program under test sees: under "dlv exec" the
\* executable named before the first "--" and what follows the "--"
TargetArgv(cmd) ==
    IF cmd.Path = <<"dlv">> \/ cmd.Path = <<"dlv", ".exe">>
    THEN LET k == FirstSeparator(cmd.Args)
         IN  IF k = 0 THEN <<cmd.Args[Len(cmd.Args)]>>
             ELSE <<cmd.Args[k - 1]>> \o SubSeq(cmd.Args, k + 1, Len(cmd.Args))
    ELSE cmd.Args

\* the k-th Cmd is run to its exit: the instrumented program writes one
\* artifact, named after the run, into $GOCOVERDIR if that directory is there
Run(k) ==
    /\ k \in 1..Len(cmds)
    /\ ~cmds[k].ran
    /\ cmds' = [cmds EXCEPT ![k].ran = TRUE]
    /\ LET dir == ChildGetenv(cmds[k].cmd.Env, "GOCOVERDIR")
           exe == TargetArgv(cmds[k].cmd)[1]
           roots == { r \in RootsOf(tmpfs, dir) :
                        tmpfs[r].exe /\ exe \in { JoinPath(r, n) : n \in ExeNames } }
       IN  tmpfs' = [r \in DOMAIN tmpfs |->
                        IF r \in roots
                        THEN [tmpfs[r] EXCEPT !.entries = @ \cup {Artifact(k)}]
                        ELSE tmpfs[r]]
    /\ UNCHANGED <<args, environ, files, dirs, exes, nBuilds, fin, found>>

\* a caller creates a subdirectory in the exported CoverageDir of a Handle
MkSubDir(i) ==
    /\ i \in 1..Len(exes)
    /\ RootsOf(tmpfs, exes[i].CoverageDir) # {}
    /\ SubDir \notin tmpfs[exes[i].binDir].entries
    /\ tmpfs' = [tmpfs EXCEPT ![exes[i].binDir].entries = @ \cup {SubDir}]
    /\ UNCHANGED <<args, environ, files, dirs, exes, nBuilds, cmds, fin, found>>

\* ------------------------------------------------------------------ Finish
\* mergeGoCover(from, dst): "go tool covdata textfmt -i from -o dst".  The
\* subprocess reads the files of from; it fails when from is not there or dst
\* is a directory, and otherwise exits with mergeExit.  On exit 0 dst holds the
\* report over the files read.
mergeGoCover(w, from, dst, toolFound, mergeExit) ==
    IF goTool(toolFound).err # Nil
    THEN [err |-> goTool(toolFound).err, w |-> w, ran |-> FALSE, input |-> {}]
    ELSE
    LET rd == ReadDir(w.tmpfs, from)
        input == { rd.entries[j].name :
                     j \in { j \in 1..Len(rd.entries) : ~rd.entries[j].isDir } }
        exit == IF ~rd.ok \/ dst \in DOMAIN w.dirs THEN 1 ELSE mergeExit
    IN  IF exit # 0
        THEN [err |-> "go tool covdata", w |-> w, ran |-> TRUE, input |-> input]
        ELSE [err |-> Nil, w |-> [w EXCEPT !.files = (dst :> input) @@ @],
              ran |-> TRUE, input |-> input]

\* os.MkdirAll(path) outside the temp namespace
MkdirAll(w, path, ok) ==
    IF ~ok \/ path \in DOMAIN w.files THEN [err |-> "mkdir", w |-> w]
    ELSE IF path \in DOMAIN w.dirs THEN [err |-> Nil, w |-> w]
    ELSE [err |-> Nil, w |-> [w EXCEPT !.dirs = (path :> {}) @@ @]]

\* copyFile(src, dst) into the file names of the destination directory; a
\* failed copy is one whose os.Create failed, which leaves dst as it was
copyFile(dstEntries, name, ok) ==
    IF ok THEN [err |-> Nil, set |-> dstEntries \cup {name}]
    ELSE [err |-> "copy", set |-> dstEntries]

RECURSIVE copyEntries_returnAtDir(_, _, _)
copyEntries_returnAtDir(entries, dstEntries, failAt) ==
    IF entries = <<>> THEN [err |-> Nil, set |-> dstEntries]
    ELSE IF Head(entries).isDir
    THEN [err |-> Nil, set |-> dstEntries]
    ELSE LET c == copyFile(dstEntries, Head(entries).name, failAt # 1)
         IN  IF c.err # Nil THEN c
             ELSE copyEntries_returnAtDir(Tail(entries), c.set, failAt - 1)

\* the loop of copyAll; the failAt-th copyFile call fails (0: none does)
RECURSIVE copyEntries(_, _, _)
copyEntries(entries, dstEntries, failAt) ==
    IF entries = <<>> THEN [err |-> Nil, set |-> dstEntries]
    ELSE IF Head(entries).isDir
    THEN copyEntries(Tail(entries), dstEntries, failAt)
    ELSE LET c == copyFile(dstEntries, Head(entries).name, failAt # 1)
         IN  IF c.err # Nil THEN c
             ELSE copyEntries(Tail(entries), c.set, failAt - 1)

\* copyAll(src, dst)
copyAll(w, src, dst, failAt) ==
    LET rd == ReadDir(w.tmpfs, src)
    IN  IF ~rd.ok THEN [err |-> "readdir", w |-> w, input |-> {}]
        ELSE LET c == copyEntries(rd.entries, w.dirs[dst], failAt)
             IN  [err |-> c.err, w |-> [w EXCEPT !.dirs[dst] = c.set],
                  input |-> { rd.entries[j].name : j \in 1..Len(rd.entries) }]

\* coverprofile as Finish determines it
coverprofileOf(b) ==
    IF b.overrideCovDir # Empty THEN b.overrideCovDir ELSE findArg(KeyCoverProfile)

configError_profileOnly(coverprofile, gocoverdir) == coverprofile = Empty

configError_missing(coverprofile, gocoverdir) == FALSE

\* the final check of Finish
configError(coverprofile, gocoverdir) == coverprofile = Empty /\ gocoverdir = Empty

\* the outcomes a Finish call draws from its environment: LookPath, the exit
\* code of the merge subprocess, MkdirAll, and which copyFile call fails, if
\* any.  Finish returns at its first failure, so one failure a call is drawn.
FinishInput(toolFound, mergeExit, mkdirOk, failAt) ==
    [toolFound |-> toolFound, mergeExit |-> mergeExit, mkdirOk |-> mkdirOk,
     failAt |-> failAt]
FinishInputs ==
    { FinishInput(TRUE, 0, TRUE, 0),
      FinishInput(FALSE, 0, TRUE, 0),
      FinishInput(TRUE, 1, TRUE, 0),
      FinishInput(TRUE, 0, FALSE, 0) }
    \cup { FinishInput(TRUE, 0, TRUE, k) : k \in 1..MaxRuns }

\* what a Finish call did and returns: the error, the filesystem, the
\* destinations it determined, and what the merge (m) and the copy read
FinishReturn(err, w, cp, lookedUp, gd, m, copied, copyIn) ==
    [err |-> err, w |-> w, coverprofile |-> cp,
     lookedUp |-> lookedUp, gocoverdir |-> gd,
     merged |-> m.ran, mergeIn |-> m.input,
     copied |-> copied, copyIn |-> copyIn]

\* Finish from the result c of its copy block on: the final check
FinishAfterCopy(cp, gd, m, c) ==
    FinishReturn(IF c.err # Nil THEN "copying cov files"
                 ELSE IF configError(cp, gd) THEN "not set"
                 ELSE Nil,
                 c.w, cp, TRUE, gd, m, gd # Empty, c.input)

\* Finish from the result mk of os.MkdirAll(gocoverdir) on
FinishAfterMkdir(b, in, cp, gd, m, mk) ==
    IF gd # Empty /\ mk.err # Nil
    THEN FinishReturn("mkdir GOCOVERDIR", m.w, cp, TRUE, gd, m, FALSE, {})
    ELSE FinishAfterCopy(cp, gd, m,
            IF gd # Empty THEN copyAll(mk.w, b.CoverageDir, gd, in.failAt)
            ELSE [err |-> Nil, w |-> m.w, input |-> {}])

\* Finish from the result m of its merge block on
FinishAfterMerge(b, in, cp, m) ==
    IF m.err # Nil
    THEN FinishReturn(m.err, m.w, cp, FALSE, Empty, m, FALSE, {})
    ELSE FinishAfterMkdir(b, in, cp, findGoCoverDir, m,
                          MkdirAll(m.w, findGoCoverDir, in.mkdirOk))

\* the body of Finish, up to its return
FinishBody(b, w, in) ==
    FinishAfterMerge(b, in, coverprofileOf(b),
        IF coverprofileOf(b) # Empty
        THEN mergeGoCover(w, b.CoverageDir, coverprofileOf(b), in.toolFound, in.mergeExit)
        ELSE [err |-> Nil, w |-> w, ran |-> FALSE, input |-> {}])

FinishCall_removeOnSuccess(b, w, in) ==
    LET r == FinishBody(b, w, in)
    IN  IF r.err = Nil THEN [r EXCEPT !.w.tmpfs = RemoveAll(@, b.binDir)] ELSE r

FinishCall_removeFirst(b, w, in) ==
    FinishBody(b, [w EXCEPT !.tmpfs = RemoveAll(@, b.binDir)], in)

\* (b *Exe) Finish(): the body, then the deferred os.RemoveAll(b.binDir)
FinishCall(b, w, in) ==
    LET r == FinishBody(b, w, in)
    IN  [r EXCEPT !.w.tmpfs = RemoveAll(@, b.binDir)]

NoFin ==
    [called |-> FALSE, exe |-> 0, err |-> Nil, coverprofile |-> Empty,
     lookedUp |-> FALSE, gocoverdir |-> Empty, merged |-> FALSE, mergeIn |-> {},
     copied |-> FALSE, copyIn |-> {}, rootExisted |-> FALSE, pre |-> {},
     commands |-> 0, done |-> {}]

\* a caller calls Finish on the i-th Handle, once
Finish(i, in) ==
    /\ i \in 1..Len(exes)
    /\ exes[i].binDir \in DOMAIN tmpfs
    /\ \E b \in {exes[i]} :
       \E r \in {FinishCall(b, World(tmpfs, files, dirs), in)} :
           /\ tmpfs' = r.w.tmpfs
           /\ files' = r.w.files
           /\ dirs' = r.w.dirs
           /\ fin' = [called |-> TRUE, exe |-> i, err |-> r.err,
                      coverprofile |-> r.coverprofile,
                      lookedUp |-> r.lookedUp, gocoverdir |-> r.gocoverdir,
                      merged |-> r.merged, mergeIn |-> r.mergeIn,
                      copied |-> r.copied, copyIn |-> r.copyIn,
                      rootExisted |-> b.binDir \in DOMAIN tmpfs,
                      pre |-> IF b.binDir \in DOMAIN tmpfs
                              THEN tmpfs[b.binDir].entries ELSE {},
                      commands |-> Cardinality({ k \in 1..Len(cmds) : cmds[k].exe = i }),
                      done |-> { k \in 1..Len(cmds) : cmds[k].exe = i /\ cmds[k].ran }]
    /\ UNCHANGED <<args, environ, exes, nBuilds, cmds, found>>

\* ----------------------------------------------------------- specification
NoFound == [kind |-> "none", key |-> Empty, val |-> Empty]

Start ==
    /\ tmpfs = NoPaths
    /\ files = NoPaths
    /\ dirs = NoPaths
    /\ exes = <<>>
    /\ nBuilds = 0
    /\ cmds = <<>>
    /\ fin = NoFin
    /\ found = NoFound

Init ==
    /\ args \in ArgLists(Tokens, MaxArgs)
    /\ environ \in Environs
    /\ Start

Next ==
    \/ \E n \in ExeNames, o \in OptionLists, out \in BuildOutcomes :
          Build(n, o, out.toolFound, out.mkTempOk, out.mkAllOk, out.buildExit)
    \/ \E i \in 1..MaxBuilds, a \in CmdArgLists : CallCommand(i, a)
    \/ \E k \in 1..MaxRuns : Run(k)
    \/ \E i \in 1..MaxBuilds : MkSubDir(i)
    \/ \E i \in 1..MaxBuilds, in \in FinishInputs : Finish(i, in)

Spec == Init /\ [][Next]_vars

\* the argument scan on its own: findArg and findGoCoverDir applied to every
\* argument list over flag-style tokens
CallFindArg(key) ==
    /\ found' = [kind |-> "findArg", key |-> key, val |-> findArg(key)]
    /\ UNCHANGED <<args, environ, tmpfs, files, dirs, exes, nBuilds, cmds, fin>>

CallFindGoCoverDir ==
    /\ found' = [kind |-> "findGoCoverDir", key |-> KeyGoCoverDir, val |-> findGoCoverDir]
    /\ UNCHANGED <<args, environ, tmpfs, files, dirs, exes, nBuilds, cmds, fin>>

InitScan ==
    /\ args \in ArgLists(ScanTokens, MaxScanArgs)
    /\ environ \in Environs
    /\ Start

NextScan ==
    \/ \E key \in {KeyCoverProfile, KeyGoCoverDir} : CallFindArg(key)
    \/ CallFindGoCoverDir

SpecScan == InitScan /\ [][NextScan]_vars

\* ------------------------------------------------------------------ claims
\* the Handle of the most recent Finish call
Finished == exes[fin.exe]

\* the errors Finish returns when a subprocess or the filesystem failed
EnvFailures ==
    {"cannot find go tool", "go tool covdata", "mkdir GOCOVERDIR", "copying cov files"}

\* nothing of the Handle b is in the temp namespace: no root that is its
\* binDir or holds its executable or its coverage directory
NothingLeft(b) ==
    \A r \in DOMAIN tmpfs :
        /\ r # b.binDir
        /\ ~HasPrefix(b.Path, r)
        /\ ~HasPrefix(b.CoverageDir, r)

\* the names of the files (not directories) among entries
FileNames(entries) == { e.name : e \in { x \in entries : ~x.isDir } }

\* C1: after every Finish call, whatever it returned, the Handle's temporary
\* root is gone from the temp namespace, and with it the executable and the
\* coverage directory.
C1_FinishRemovesRoot ==
    fin.called =>
        /\ Finished.binDir \notin DOMAIN tmpfs
        /\ RootsOf(tmpfs, Finished.CoverageDir) = {}

C1_Witness_MergeFailed ==
    /\ fin.called
    /\ fin.err = "go tool covdata"
    /\ Finished.binDir \notin DOMAIN tmpfs

\* C2 as stated: a Build followed by Finish with no Command call in between
\* returns no error (the subprocess and the filesystem not failing) and
\* leaves nothing in the temp namespace.
C2_Original_NeverErrors ==
    (fin.called /\ fin.commands = 0 /\ fin.err \notin EnvFailures) =>
        /\ fin.err = Nil
        /\ NothingLeft(Finished)

\* C2 as amended: a Build followed by Finish with no Command call in between
\* leaves nothing in the temp namespace; the subprocess and the filesystem not
\* failing, Finish returns no error exactly when it determined a profile
\* destination or a raw-coverage directory, and the configuration error
\* otherwise.
C2_BuildThenFinish ==
    (fin.called /\ fin.commands = 0) =>
        /\ NothingLeft(Finished)
        /\ fin.err \notin EnvFailures =>
              /\ (coverprofileOf(Finished) # Empty \/ findGoCoverDir # Empty)
                    => fin.err = Nil
              /\ (coverprofileOf(Finished) = Empty /\ findGoCoverDir = Empty)
                    => fin.err = "not set"

C2_Witness_RawDirOnly ==
    /\ fin.called
    /\ fin.commands = 0
    /\ coverprofileOf(Finished) = Empty
    /\ findGoCoverDir # Empty
    /\ fin.err = Nil
    /\ NothingLeft(Finished)

\* C3: when Finish determines neither a profile destination nor a raw-coverage
\* directory it returns the configuration error, and it has run neither the
\* merge subprocess nor a copy: nothing was written outside the temp namespace.
C3_NeitherConfigured ==
    (fin.called /\ coverprofileOf(Finished) = Empty /\ findGoCoverDir = Empty) =>
        /\ fin.err = "not set"
        /\ ~fin.merged
        /\ ~fin.copied
        /\ DOMAIN files = {}
        /\ DOMAIN dirs = {}

C3_Witness_NeitherConfigured ==
    /\ fin.called
    /\ coverprofileOf(Finished) = Empty
    /\ findGoCoverDir = Empty
    /\ fin.err = "not set"
    /\ fin.pre # {}

\* C4: with both destinations determined, and the merge subprocess and the
\* filesystem not failing, one Finish call returns no error, has merged the
\* files of the private coverage directory into the profile destination, and
\* has copied exactly the non-directory entries into the raw-coverage directory.
C4_BothPopulated ==
    (/\ fin.called
     /\ coverprofileOf(Finished) # Empty
     /\ findGoCoverDir # Empty
     /\ fin.err \notin EnvFailures) =>
        /\ fin.err = Nil
        /\ fin.merged
        /\ fin.mergeIn = FileNames(fin.pre)
        /\ coverprofileOf(Finished) \in DOMAIN files
        /\ files[coverprofileOf(Finished)] = FileNames(fin.pre)
        /\ fin.copied
        /\ findGoCoverDir \in DOMAIN dirs
        /\ FileNames(fin.pre) \subseteq dirs[findGoCoverDir]
        /\ \A e \in fin.pre : e.isDir => e.name \notin dirs[findGoCoverDir]

C4_Witness_BothPopulated ==
    /\ fin.called
    /\ coverprofileOf(Finished) # Empty
    /\ findGoCoverDir # Empty
    /\ fin.err = Nil
    /\ SubDir \in fin.pre
    /\ Cardinality(FileNames(fin.pre)) = 2
    /\ dirs[findGoCoverDir] = FileNames(fin.pre)

\* C5 as stated: with a raw-coverage directory configured when Finish is
\* called, and the directory creation and the copy not failing, the files the
\* private coverage directory held are in the raw-coverage directory after
\* Finish, also when the merge subprocess exited non-zero.
C5_RawFilesPreserved ==
    (/\ fin.called
     /\ FileNames(fin.pre) # {}
     /\ findGoCoverDir # Empty
     /\ fin.err \notin {"cannot find go tool", "mkdir GOCOVERDIR", "copying cov files"}) =>
        /\ findGoCoverDir \in DOMAIN dirs
        /\ FileNames(fin.pre) \subseteq dirs[findGoCoverDir]

\* C6: every Cmd that Command returned, in debug mode or not, has the
\* inherited environment followed by GOCOVERDIR=<the Handle's CoverageDir> as
\* its last entry, so the launched process sees the private directory whatever
\* GOCOVERDIR the caller had; the Handle is as it was, so all Cmds of a Handle
\* carry the same environment.
C6_CoverDirLastInEnv ==
    \A k \in 1..Len(cmds) :
        LET c == cmds[k].cmd
            b == exes[cmds[k].exe]
        IN  /\ Len(c.Env) = Len(environ) + 1
            /\ SubSeq(c.Env, 1, Len(environ)) = environ
            /\ c.Env[Len(c.Env)] = EnvEntry("GOCOVERDIR", b.CoverageDir)
            /\ ChildGetenv(c.Env, "GOCOVERDIR") = b.CoverageDir
            /\ b.CoverageDir = JoinPath(b.binDir, <<".coverage">>)
            /\ \A j \in 1..Len(cmds) :
                  cmds[j].exe = cmds[k].exe => cmds[j].cmd.Env = c.Env

C6_Witness_OverridesInherited ==
    /\ Len(cmds) = 2
    /\ cmds[1].args # cmds[2].args
    /\ Len(exes[1].delveOpts) > 0
    /\ Getenv(environ, "GOCOVERDIR") = <<"e">>
    /\ ChildGetenv(cmds[2].cmd.Env, "GOCOVERDIR") = exes[1].CoverageDir

\* C7 as stated: in debug mode the argument list is "exec", the debugger
\* options, the executable's path, "--", and the arguments; otherwise the Cmd
\* is the executable with the arguments.
C7_Original_ArgumentList ==
    \A k \in 1..Len(cmds) :
        LET c == cmds[k].cmd
            b == exes[cmds[k].exe]
        IN  IF Len(b.delveOpts) > 0
            THEN Tail(c.Args) = << <<"exec">> >> \o b.delveOpts
                                   \o <<b.Path, <<"--">>>> \o cmds[k].args
            ELSE c.Path = b.Path /\ Tail(c.Args) = cmds[k].args

\* C7 as amended: in debug mode the Cmd runs dlv with the argument list
\* "exec", "--log-dest", "/dev/null", the debugger options (the listen address
\* among them), the executable's path, "--", and the arguments; otherwise the
\* Cmd is the executable with the arguments.  In both modes the program under
\* test is the built executable and receives exactly the arguments.
C7_DebugWrapsTarget ==
    \A k \in 1..Len(cmds) :
        LET c == cmds[k].cmd
            b == exes[cmds[k].exe]
        IN  /\ IF Len(b.delveOpts) > 0
               THEN /\ c.Path = <<"dlv">>
                    /\ Tail(c.Args) =
                          << <<"exec">>, <<"--log-dest">>, <<"/dev/null">> >>
                              \o b.delveOpts \o <<b.Path, <<"--">>>> \o cmds[k].args
                    /\ \E j \in 1..Len(b.delveOpts) :
                          b.delveOpts[j] = <<"localhost:">> \o Port
               ELSE c.Path = b.Path /\ Tail(c.Args) = cmds[k].args
            /\ TargetArgv(c) = <<b.Path>> \o cmds[k].args

C7_Witness_DebugWithSeparatorArg ==
    /\ Len(cmds) >= 1
    /\ Len(exes[1].delveOpts) > 0
    /\ cmds[1].args = << <<"--">>, <<"1">> >>
    /\ TargetArgv(cmds[1].cmd) = <<exes[1].Path, <<"--">>, <<"1">>>>

\* C8: when at least one launched process has exited before Finish is called,
\* the private coverage directory holds the artifact of each of them, the
\* merge (run whenever a profile destination is determined and the go tool is
\* found) and the copy read a directory that holds them all, a merge that
\* exits zero leaves a non-empty report covering each of them, a completed copy
\* leaves each of them in the raw-coverage directory, and the root is removed.
C8_MergeSeesAllRuns ==
    (fin.called /\ fin.done # {}) =>
        /\ fin.done \subseteq FileNames(fin.pre)
        /\ (fin.coverprofile # Empty /\ fin.err # "cannot find go tool") => fin.merged
        /\ fin.merged => fin.done \subseteq fin.mergeIn
        /\ fin.copied => fin.done \subseteq fin.copyIn
        /\ (fin.merged /\ fin.err # "go tool covdata") =>
              /\ fin.coverprofile \in DOMAIN files
              /\ files[fin.coverprofile] # {}
              /\ fin.done \subseteq files[fin.coverprofile]
        /\ (fin.copied /\ fin.err = Nil) => fin.done \subseteq dirs[fin.gocoverdir]
        /\ Finished.binDir \notin DOMAIN tmpfs

C8_Witness_TwoRunsMerged ==
    /\ fin.called
    /\ fin.done = {1, 2}
    /\ fin.merged
    /\ fin.copied
    /\ fin.err = Nil
    /\ files[fin.coverprofile] = {1, 2}
    /\ dirs[fin.gocoverdir] = {1, 2}

\* the arguments that begin with "-" key
Beginning(key) == { i \in 1..Len(args) : HasPrefix(args[i], <<"-">> \o key) }

\* the text of token t after its first "=", "" when it has none
AfterEquals(t) ==
    IF \E i \in 1..Len(t) : t[i] = "="
    THEN LET i == CHOOSE k \in 1..Len(t) : t[k] = "=" /\ \A j \in 1..(k - 1) : t[j] # "="
         IN  SubSeq(t, i + 1, Len(t))
    ELSE Empty

\* the value the first argument beginning with "-" key gives, "" when none does
FlagValue(key) ==
    IF Beginning(key) = {} THEN Empty
    ELSE AfterEquals(args[CHOOSE i \in Beginning(key) : \A j \in Beginning(key) : i <= j])

\* the flag key is among the arguments, as "-key" or "-key=..."
FlagPresent(key) ==
    \E i \in 1..Len(args) :
        \/ args[i] = <<"-">> \o key
        \/ HasPrefix(args[i], <<"-">> \o key \o <<"=">>)

\* C9 as stated: whenever the -test.gocoverdir flag is among the arguments,
\* the raw-coverage directory Finish uses is the flag's, not the environment's.
C9_Original_FlagPresentWins ==
    (fin.called /\ fin.lookedUp /\ FlagPresent(KeyGoCoverDir)) =>
        fin.gocoverdir = FlagValue(KeyGoCoverDir)

\* C9 as amended: the raw-coverage directory Finish uses is the value of the
\* -test.gocoverdir argument whenever that value is not empty, and the value of
\* GOCOVERDIR in the environment whenever it is empty: when no such argument
\* is given, and also when it is given with an empty value or without "=".
C9_FlagValueThenEnv ==
    (fin.called /\ fin.lookedUp) =>
        fin.gocoverdir = IF FlagValue(KeyGoCoverDir) # Empty
                         THEN FlagValue(KeyGoCoverDir)
                         ELSE Getenv(environ, "GOCOVERDIR")

C9_Witness_EmptyFlagUsesEnv ==
    /\ fin.called
    /\ fin.lookedUp
    /\ FlagPresent(KeyGoCoverDir)
    /\ FlagValue(KeyGoCoverDir) = Empty
    /\ fin.gocoverdir = <<"e">>
    /\ fin.copied

\* the arguments of the form "-key=value" for exactly this key
ExactTokens(key) ==
    { i \in 1..Len(args) : HasPrefix(args[i], <<"-">> \o key \o <<"=">>) }

\* C10 as stated: findArg(key) is the value of a token "-key=value" for
\* exactly that key, unchanged, when there is one, and "" when there is none;
\* a token of another flag whose name begins with key does not decide it.
C10_FindArgExactKey ==
    found.kind = "findArg" =>
        IF ExactTokens(found.key) = {} THEN found.val = Empty
        ELSE found.val \in
                { SubSeq(args[i], Len(found.key) + 3, Len(args[i])) :
                    i \in ExactTokens(found.key) }

\* the temporary roots no Handle that Build returned owns
OrphanRoots ==
    { p \in DOMAIN tmpfs : \A i \in 1..Len(exes) : exes[i].binDir # p }

\* C11 as stated: every temporary root Build created is owned by a Handle
\* that Build returned; a Build call that returned an error (tool not found,
\* coverage subdirectory not created, build subprocess exited non-zero) has
\* left no temporary root behind, so Finish on every returned Handle leaves
\* the temporary-directory namespace without roots of this package.
C11_EveryRootOwned ==
    OrphanRoots = {}

====
